---- MODULE Spec2Model ----
(***************************************************************************)
(* pc.Material (src/src/scene/scene_material.js): the closure's id         *)
(* counter, the Material objects with their render state, their parameter  *)
(* tables, variant caches and mesh-instance lists, and the collaborators   *)
(* the methods call (mesh instances' updateKey and _shader slot, the       *)
(* device scope's resolve and setValue).                                   *)
(*                                                                         *)
(* Objects held by reference ({} and [] literals) live in heaps indexed by *)
(* address, so that sharing between two materials is expressible.          *)
(* Parameter names are ordinary uniform names (not names of                *)
(* Object.prototype members); JS undefined is the value Undefined and the  *)
(* property key "undefined".                                               *)
(***************************************************************************)
EXTENDS Integers, Sequences, FiniteSets, TLC

\* ---------------------------------------------------------------- bounds
MaxMaterials == 2
MaxMeshes == 2
MaxValue == 2
MaxSeqLen == 2
MaxHeld == 1

\* ------------------------------------------------------- pc.* constants
BLEND_SUBTRACTIVE == "BLEND_SUBTRACTIVE"
BLEND_ADDITIVE == "BLEND_ADDITIVE"
BLEND_NORMAL == "BLEND_NORMAL"
BLEND_NONE == "BLEND_NONE"
BLEND_PREMULTIPLIED == "BLEND_PREMULTIPLIED"
BLEND_MULTIPLICATIVE == "BLEND_MULTIPLICATIVE"
BLEND_ADDITIVEALPHA == "BLEND_ADDITIVEALPHA"

BLENDMODE_ZERO == "BLENDMODE_ZERO"
BLENDMODE_ONE == "BLENDMODE_ONE"
BLENDMODE_SRC_ALPHA == "BLENDMODE_SRC_ALPHA"
BLENDMODE_ONE_MINUS_SRC_ALPHA == "BLENDMODE_ONE_MINUS_SRC_ALPHA"
BLENDMODE_DST_COLOR == "BLENDMODE_DST_COLOR"

BLENDEQUATION_ADD == "BLENDEQUATION_ADD"
BLENDEQUATION_SUBTRACT == "BLENDEQUATION_SUBTRACT"

CULLFACE_NONE == "CULLFACE_NONE"
CULLFACE_BACK == "CULLFACE_BACK"
CULLFACE_FRONT == "CULLFACE_FRONT"

\* The six presets the setter has a case for, and the values a caller may assign.
Presets ==
    {BLEND_NONE, BLEND_NORMAL, BLEND_PREMULTIPLIED, BLEND_ADDITIVE,
     BLEND_ADDITIVEALPHA, BLEND_MULTIPLICATIVE}
BlendTypes == Presets \cup {BLEND_SUBTRACTIVE, "BLEND_UNKNOWN"}
BlendModes ==
    {BLENDMODE_ZERO, BLENDMODE_ONE, BLENDMODE_SRC_ALPHA,
     BLENDMODE_ONE_MINUS_SRC_ALPHA, BLENDMODE_DST_COLOR}
BlendEquations == {BLENDEQUATION_ADD, BLENDEQUATION_SUBTRACT}

\* JS null, undefined, and the values of the model's inputs.
Null == "null"
Undefined == -1
Values == 1..MaxValue
ParamNames == {"x", "y"}
UndefinedKey == "undefined"
Keys == ParamNames \cup {UndefinedKey}
MeshIds == 1..MaxMeshes
Shaders == {"shaderA"}
VariantKeys == {"k1"}
Addrs == 1..MaxMaterials

VARIABLES
    id,           \* the closure's counter (var id, line 2)
    materials,    \* the Material objects, in creation order
    paramObjs,    \* heap of parameter tables: address -> sequence of records
    variantObjs,  \* heap of variant caches: address -> set of cached keys
    arrayObjs,    \* heap of meshInstances arrays: address -> sequence of mesh ids
    meshShader,   \* each mesh instance's _shader slot
    global_i,     \* the global i that clearVariants' undeclared loop variable writes
    everResolved, \* the names device.scope.resolve was ever called with
    calls,        \* the calls the last operation made on its collaborators
    last          \* the last operation: its name, arguments, result and target before

vars ==
    <<id, materials, paramObjs, variantObjs, arrayObjs, meshShader,
      global_i, everResolved, calls, last>>

\* ------------------------------------------------------------ helpers
Min(S) == CHOOSE a \in S : \A b \in S : a <= b

Range(s) == {s[k] : k \in 1..Len(s)}

\* JS truthiness of a number or undefined (0 and undefined are falsy).
Truthy(v) == v # 0 /\ v # Undefined

\* The addresses the materials `who` of ms reference, per kind of object.
ParamsHeldBy(ms, who) == {ms[k].parameters : k \in who}
VariantsHeldBy(ms, who) == {ms[k].variants : k \in who}
ArraysHeldBy(ms, who) == {ms[k].meshInstances : k \in who}
LiveParams(ms) == ParamsHeldBy(ms, DOMAIN ms)
LiveVariants(ms) == VariantsHeldBy(ms, DOMAIN ms)
LiveArrays(ms) == ArraysHeldBy(ms, DOMAIN ms)

\* A {} or [] literal: a fresh object, at an address nothing in `held` references.
\* (An object only the assigned field referenced is garbage once the field is
\* overwritten, and its address is free again.)
NewObject(held) == Min(Addrs \ held)

\* Objects no material references any more are collected (their cell is empty).
Collect(heap, live, empty) == [a \in Addrs |-> IF a \in live THEN heap[a] ELSE empty]

\* --------------------------------------------------------- constructor
\* var Material = function Material() {...} with this.id = id++ taking idv;
\* pa, va, aa are the addresses of its {} / {} / [] literals.
Material(idv, pa, va, aa) ==
    [name |-> "Untitled",
     id |-> idv,
     shader |-> Null,
     variants |-> va,
     parameters |-> pa,
     alphaTest |-> 0,
     blend |-> FALSE,
     blendSrc |-> BLENDMODE_ONE,
     blendDst |-> BLENDMODE_ZERO,
     blendEquation |-> BLENDEQUATION_ADD,
     cull |-> CULLFACE_BACK,
     depthTest |-> TRUE,
     depthWrite |-> TRUE,
     redWrite |-> TRUE,
     greenWrite |-> TRUE,
     blueWrite |-> TRUE,
     alphaWrite |-> TRUE,
     meshInstances |-> aa]

\* A getter that compares blend, blendSrc and blendDst only.
blendTypeGet_IgnoresEquation(this) ==
    IF (~this.blend) /\ this.blendSrc = BLENDMODE_ONE /\ this.blendDst = BLENDMODE_ZERO
    THEN BLEND_NONE
    ELSE IF this.blend /\ this.blendSrc = BLENDMODE_SRC_ALPHA
       /\ this.blendDst = BLENDMODE_ONE_MINUS_SRC_ALPHA
    THEN BLEND_NORMAL
    ELSE IF this.blend /\ this.blendSrc = BLENDMODE_ONE /\ this.blendDst = BLENDMODE_ONE
    THEN BLEND_ADDITIVE
    ELSE IF this.blend /\ this.blendSrc = BLENDMODE_SRC_ALPHA /\ this.blendDst = BLENDMODE_ONE
    THEN BLEND_ADDITIVEALPHA
    ELSE IF this.blend /\ this.blendSrc = BLENDMODE_DST_COLOR /\ this.blendDst = BLENDMODE_ZERO
    THEN BLEND_MULTIPLICATIVE
    ELSE IF this.blend /\ this.blendSrc = BLENDMODE_ONE
       /\ this.blendDst = BLENDMODE_ONE_MINUS_SRC_ALPHA
    THEN BLEND_PREMULTIPLIED
    ELSE BLEND_NORMAL

\* A switch case that leaves blendEquation as it is.
BlendFields_KeepsEquation(this, b, src, dst, eq) ==
    [this EXCEPT !.blend = b, !.blendSrc = src, !.blendDst = dst]

\* A switch with a default case that resets the fields to those of BLEND_NONE.
blendTypeSwitch_DefaultNone(this, type) ==
    LET set(b, src, dst) ==
            [this EXCEPT !.blend = b, !.blendSrc = src, !.blendDst = dst,
                         !.blendEquation = BLENDEQUATION_ADD]
    IN CASE type = BLEND_NORMAL -> set(TRUE, BLENDMODE_SRC_ALPHA, BLENDMODE_ONE_MINUS_SRC_ALPHA)
         [] type = BLEND_PREMULTIPLIED -> set(TRUE, BLENDMODE_ONE, BLENDMODE_ONE_MINUS_SRC_ALPHA)
         [] type = BLEND_ADDITIVE -> set(TRUE, BLENDMODE_ONE, BLENDMODE_ONE)
         [] type = BLEND_ADDITIVEALPHA -> set(TRUE, BLENDMODE_SRC_ALPHA, BLENDMODE_ONE)
         [] type = BLEND_MULTIPLICATIVE -> set(TRUE, BLENDMODE_DST_COLOR, BLENDMODE_ZERO)
         [] OTHER -> set(FALSE, BLENDMODE_ONE, BLENDMODE_ZERO)

\* ------------------------------------------------- blendType get / set
blendTypeGet(this) ==
    IF (~this.blend) /\ this.blendSrc = BLENDMODE_ONE
       /\ this.blendDst = BLENDMODE_ZERO /\ this.blendEquation = BLENDEQUATION_ADD
    THEN BLEND_NONE
    ELSE IF this.blend /\ this.blendSrc = BLENDMODE_SRC_ALPHA
       /\ this.blendDst = BLENDMODE_ONE_MINUS_SRC_ALPHA
       /\ this.blendEquation = BLENDEQUATION_ADD
    THEN BLEND_NORMAL
    ELSE IF this.blend /\ this.blendSrc = BLENDMODE_ONE
       /\ this.blendDst = BLENDMODE_ONE /\ this.blendEquation = BLENDEQUATION_ADD
    THEN BLEND_ADDITIVE
    ELSE IF this.blend /\ this.blendSrc = BLENDMODE_SRC_ALPHA
       /\ this.blendDst = BLENDMODE_ONE /\ this.blendEquation = BLENDEQUATION_ADD
    THEN BLEND_ADDITIVEALPHA
    ELSE IF this.blend /\ this.blendSrc = BLENDMODE_DST_COLOR
       /\ this.blendDst = BLENDMODE_ZERO /\ this.blendEquation = BLENDEQUATION_ADD
    THEN BLEND_MULTIPLICATIVE
    ELSE IF this.blend /\ this.blendSrc = BLENDMODE_ONE
       /\ this.blendDst = BLENDMODE_ONE_MINUS_SRC_ALPHA
       /\ this.blendEquation = BLENDEQUATION_ADD
    THEN BLEND_PREMULTIPLIED
    ELSE BLEND_NORMAL

\* The four assignments of one case of the setter's switch.
BlendFields(this, b, src, dst, eq) ==
    [this EXCEPT !.blend = b, !.blendSrc = src, !.blendDst = dst, !.blendEquation = eq]

\* The setter's switch (type): the material after it, before the keys are refreshed.
blendTypeSwitch(this, type) ==
    CASE type = BLEND_NONE ->
           BlendFields(this, FALSE, BLENDMODE_ONE, BLENDMODE_ZERO, BLENDEQUATION_ADD)
      [] type = BLEND_NORMAL ->
           BlendFields(this, TRUE, BLENDMODE_SRC_ALPHA, BLENDMODE_ONE_MINUS_SRC_ALPHA,
                       BLENDEQUATION_ADD)
      [] type = BLEND_PREMULTIPLIED ->
           BlendFields(this, TRUE, BLENDMODE_ONE, BLENDMODE_ONE_MINUS_SRC_ALPHA,
                       BLENDEQUATION_ADD)
      [] type = BLEND_ADDITIVE ->
           BlendFields(this, TRUE, BLENDMODE_ONE, BLENDMODE_ONE, BLENDEQUATION_ADD)
      [] type = BLEND_ADDITIVEALPHA ->
           BlendFields(this, TRUE, BLENDMODE_SRC_ALPHA, BLENDMODE_ONE, BLENDEQUATION_ADD)
      [] type = BLEND_MULTIPLICATIVE ->
           BlendFields(this, TRUE, BLENDMODE_DST_COLOR, BLENDMODE_ZERO, BLENDEQUATION_ADD)
      [] OTHER -> this

\* ------------------------------------------------- collaborators' calls
\* One call on a collaborator: updateKey() on a mesh instance, resolve(name) on
\* the device scope, setValue(value) on the scope id of `name`.
Call(fn, name, value, mesh) == [fn |-> fn, name |-> name, value |-> value, mesh |-> mesh]

\* MeshInstance.updateKey(): the key is recomputed from the blend type the material
\* reports at the time of the call; the call is recorded with that blend type.
updateKey(material, mesh) == Call("updateKey", blendTypeGet(material), Undefined, mesh)

\* A loop over the mesh instances that starts at index 1.
updateMeshInstanceKeys_SkipsFirst(this, meshInstances) ==
    [k \in 1..(Len(meshInstances) - 1) |-> updateKey(this, meshInstances[k + 1])]

\* Material.prototype._updateMeshInstanceKeys: the calls it makes, in order, on the
\* material `this` as it is when the method runs.
updateMeshInstanceKeys(this, meshInstances) ==
    [k \in 1..Len(meshInstances) |-> updateKey(this, meshInstances[k])]

\* ------------------------------------------------------ last operation
\* The record of the last operation: "new", "clone", "setBlendType", "getBlendType",
\* "setParameter", "setParameters" and "clearVariants" with their arguments and
\* result, "other" for every other one. `before` is what the
\* operation found: the four blend fields (setBlendType), the _shader slots of the
\* material's mesh instances and its variant cache (clearVariants).
Op(op) ==
    [op |-> op, type |-> "", name |-> "", data |-> Undefined, items |-> <<>>,
     ret |-> "", threw |-> FALSE, before |-> <<>>]

\* The four blend fields of a material.
Quad(mat) == <<mat.blend, mat.blendSrc, mat.blendDst, mat.blendEquation>>

Init ==
    /\ id = 0
    /\ materials = <<>>
    /\ paramObjs = [a \in Addrs |-> <<>>]
    /\ variantObjs = [a \in Addrs |-> {}]
    /\ arrayObjs = [a \in Addrs |-> <<>>]
    /\ meshShader = [k \in MeshIds |-> Null]
    /\ global_i = Undefined
    /\ everResolved = {}
    /\ calls = <<>>
    /\ last = Op("none")

\* new pc.Material(), while fewer than MaxMaterials exist.
Construct ==
    /\ Len(materials) < MaxMaterials
    /\ materials' = Append(materials,
                           Material(id, NewObject(LiveParams(materials)),
                                    NewObject(LiveVariants(materials)),
                                    NewObject(LiveArrays(materials))))
    /\ id' = id + 1
    /\ calls' = <<>>
    /\ last' = Op("new")
    /\ UNCHANGED <<paramObjs, variantObjs, arrayObjs, meshShader, global_i,
                   everResolved>>

\* material.blendType = type
SetBlendType(m, type) ==
    LET this == blendTypeSwitch(materials[m], type)
    IN /\ materials' = [materials EXCEPT ![m] = this]
       /\ calls' = updateMeshInstanceKeys(this, arrayObjs[this.meshInstances])
       /\ last' = [Op("setBlendType") EXCEPT !.type = type,
                                                !.before = <<Quad(materials[m])>>]
       /\ UNCHANGED <<id, paramObjs, variantObjs, arrayObjs, meshShader, global_i,
                      everResolved>>

\* material.blendType (a read)
GetBlendType(m) ==
    /\ last' = [Op("getBlendType") EXCEPT !.ret = blendTypeGet(materials[m])]
    /\ calls' = <<>>
    /\ UNCHANGED <<id, materials, paramObjs, variantObjs, arrayObjs, meshShader,
                   global_i, everResolved>>

\* material[field] = value: a caller's direct write of a public field.
WriteField(m, field, value) ==
    /\ materials' = [materials EXCEPT ![m][field] = value]
    /\ calls' = <<>>
    /\ last' = Op("other")
    /\ UNCHANGED <<id, paramObjs, variantObjs, arrayObjs, meshShader, global_i,
                   everResolved>>

\* meshInstance.material = material, as far as the material sees it: the mesh
\* instance is pushed on the material's meshInstances.
Attach(m, k) ==
    /\ \A j \in 1..Len(materials) : k \notin Range(arrayObjs[materials[j].meshInstances])
    /\ arrayObjs' = [arrayObjs EXCEPT ![materials[m].meshInstances] = Append(@, k)]
    /\ calls' = <<>>
    /\ last' = Op("other")
    /\ UNCHANGED <<id, materials, paramObjs, variantObjs, meshShader, global_i,
                   everResolved>>

\* ------------------------------------------------------ parameter table
\* A parameter table is the object's own properties in insertion order (the order
\* for..in visits them): records {name, scopeId, data}.
\* device.scope.resolve(name): the scope id the device keeps for `name`.
NullId == <<>>
resolve(name) == <<"ScopeId", name>>

\* this.parameters[name]: the index of the record, 0 when the property is absent.
IndexOf(table, name) ==
    IF \E k \in 1..Len(table) : table[k].name = name
    THEN CHOOSE k \in 1..Len(table) : table[k].name = name
    ELSE 0

\* Material.prototype.getParameter: <<record>>, or <<>> for undefined.
getParameter(table, name) ==
    IF IndexOf(table, name) = 0 THEN <<>> ELSE <<table[IndexOf(table, name)]>>

\* The arguments setParameter is called with: a name (with data), an object
\* {name, value}, or an array of such objects.
StringArg(n) == [kind |-> "string", name |-> n, value |-> Undefined, items |-> <<>>]
ObjectArg(n, v) == [kind |-> "object", name |-> n, value |-> v, items |-> <<>>]
ArrayArg(items) == [kind |-> "array", name |-> "", value |-> Undefined, items |-> items]

\* uniformObject.length, .name and .value: undefined on an object that has no such
\* property (a plain object has no length, an array no name and no value); an
\* undefined name used as a property key is the key "undefined".
PropLength(arg) == IF arg.kind = "array" THEN Len(arg.items) ELSE Undefined
PropName(arg) == IF arg.kind = "object" THEN arg.name ELSE UndefinedKey
PropValue(arg) == IF arg.kind = "object" THEN arg.value ELSE Undefined

\* An upsert that stores a new record over an existing one.
upsert_Replaces(table, name, data) ==
    IF IndexOf(table, name) # 0
    THEN [table EXCEPT ![IndexOf(table, name)] =
                           [name |-> name, scopeId |-> NullId, data |-> data]]
    ELSE Append(table, [name |-> name, scopeId |-> NullId, data |-> data])

\* Lines 256-264: var param = this.parameters[name]; if (param) ... else ...
upsert(table, name, data) ==
    IF IndexOf(table, name) # 0
    THEN [table EXCEPT ![IndexOf(table, name)].data = data]
    ELSE Append(table, [name |-> name, scopeId |-> NullId, data |-> data])

\* Material.prototype.setParameter(arg, data); data = Undefined is the one-argument
\* call. (A name with undefined data is not an input of the model: the code would
\* iterate the string's characters and recurse without end.)
RECURSIVE setParameter(_, _, _)
RECURSIVE setParameterLoop(_, _, _)
setParameter(table, arg, data) ==
    IF data = Undefined
    THEN IF Truthy(PropLength(arg))
         THEN setParameterLoop(table, arg.items, 1)
         ELSE upsert(table, PropName(arg), PropValue(arg))
    ELSE upsert(table, arg.name, data)

\* for (var i = 0; i < uniformObject.length; i++) this.setParameter(uniformObject[i]);
setParameterLoop(table, items, k) ==
    IF k > Len(items) THEN table
    ELSE setParameterLoop(setParameter(table, items[k], Undefined), items, k + 1)

\* Material.prototype.deleteParameter
deleteParameter(table, name) ==
    IF IndexOf(table, name) # 0
    THEN SelectSeq(table, LAMBDA r : r.name # name)
    ELSE table

\* Material.prototype.setParameters, one iteration: the calls made for a record.
PushCalls(parameter) ==
    (IF parameter.scopeId = NullId
     THEN <<Call("resolve", parameter.name, Undefined, 0)>> ELSE <<>>)
    \o <<Call("setValue",
              (IF parameter.scopeId = NullId THEN resolve(parameter.name)
               ELSE parameter.scopeId)[2],
              parameter.data, 0)>>

\* A push that does not store the scope id it resolved.
Pushed_NotStored(parameter) == parameter

\* ... and the record after it.
Pushed(parameter) ==
    IF parameter.scopeId = NullId
    THEN [parameter EXCEPT !.scopeId = resolve(parameter.name)]
    ELSE parameter

RECURSIVE setParametersCalls(_, _)
setParametersCalls(table, k) ==
    IF k > Len(table) THEN <<>>
    ELSE PushCalls(table[k]) \o setParametersCalls(table, k + 1)

setParametersTable(table) == [k \in 1..Len(table) |-> Pushed(table[k])]

\* How often `sequence` holds a resolve call for `name`.
RECURSIVE Resolves(_, _)
Resolves(sequence, name) ==
    IF sequence = <<>> THEN 0
    ELSE (IF Head(sequence).fn = "resolve" /\ Head(sequence).name = name THEN 1 ELSE 0)
         + Resolves(Tail(sequence), name)

\* material.setParameter(arg, data)
SetParameter(m, arg, data) ==
    /\ paramObjs' = [paramObjs EXCEPT ![materials[m].parameters] = setParameter(@, arg, data)]
    /\ calls' = <<>>
    /\ last' = [Op("setParameter") EXCEPT !.type = arg.kind, !.name = arg.name,
                                             !.data = IF arg.kind = "object" THEN arg.value
                                                      ELSE data,
                                             !.items = arg.items]
    /\ UNCHANGED <<id, materials, variantObjs, arrayObjs, meshShader, global_i,
                   everResolved>>

\* material.deleteParameter(name)
DeleteParameter(m, name) ==
    /\ paramObjs' = [paramObjs EXCEPT ![materials[m].parameters] = deleteParameter(@, name)]
    /\ calls' = <<>>
    /\ last' = Op("other")
    /\ UNCHANGED <<id, materials, variantObjs, arrayObjs, meshShader, global_i,
                   everResolved>>

\* material.clearParameters(): this.parameters = {}
ClearParameters(m) ==
    LET this == [materials[m] EXCEPT !.parameters = NewObject(ParamsHeldBy(materials, DOMAIN materials \ {m}))]
        after == [materials EXCEPT ![m] = this]
    IN /\ materials' = after
       /\ paramObjs' = Collect([paramObjs EXCEPT ![this.parameters] = <<>>],
                               LiveParams(after), <<>>)
       /\ calls' = <<>>
       /\ last' = Op("other")
       /\ UNCHANGED <<id, variantObjs, arrayObjs, meshShader, global_i, everResolved>>

\* material.setParameters()
SetParameters(m) ==
    LET table == paramObjs[materials[m].parameters]
        called == setParametersCalls(table, 1)
    IN /\ paramObjs' = [paramObjs EXCEPT ![materials[m].parameters] = setParametersTable(table)]
       /\ calls' = called
       /\ everResolved' = everResolved \cup {n \in Keys : Resolves(called, n) > 0}
       /\ last' = Op("setParameters")
       /\ UNCHANGED <<id, materials, variantObjs, arrayObjs, meshShader, global_i>>

\* The arrays of {name, value} objects setParameter is called with.
ObjectArgs == {ObjectArg(n, v) : n \in ParamNames, v \in Values}
ArrayItems == UNION {[1..len -> ObjectArgs] : len \in 0..MaxSeqLen}

\* One material's parameter table and the device it is pushed to.
NextParams ==
    \/ \E n \in ParamNames, v \in Values : SetParameter(1, StringArg(n), v)
    \/ \E o \in ObjectArgs : SetParameter(1, o, Undefined)
    \/ \E n \in ParamNames : DeleteParameter(1, n)
    \/ ClearParameters(1)
    \/ SetParameters(1)

\* A copy of every field of the source but the variant cache, the shader and the
\* mesh-instance list: the parameter table is the source's.
cloneInternal_SharesParameters(this, clone, idv, pa, va, aa) ==
    [this EXCEPT !.id = idv, !.shader = Null, !.variants = va, !.meshInstances = aa]

\* A copy that takes the source's id with the other scalars.
cloneInternal_CopiesId(this, clone, idv, pa, va, aa) ==
    [this EXCEPT !.shader = Null, !.variants = va, !.parameters = pa, !.meshInstances = aa]

\* A loop over the mesh instances that starts at index 1.
clearShaders_SkipsFirst(meshInstances, slots) ==
    [k \in MeshIds |->
        IF \E j \in 2..Len(meshInstances) : meshInstances[j] = k THEN Null ELSE slots[k]]

\* --------------------------------------------------- clone, clearVariants
\* Material.prototype._cloneInternal(clone), with clone.id = id++ taking idv and
\* pa, va, aa the addresses of its {} / {} / [] literals.
cloneInternal(this, clone, idv, pa, va, aa) ==
    [clone EXCEPT !.name = this.name,
                  !.id = idv,
                  !.shader = Null,
                  !.variants = va,
                  !.parameters = pa,
                  !.alphaTest = this.alphaTest,
                  !.blend = this.blend,
                  !.blendSrc = this.blendSrc,
                  !.blendDst = this.blendDst,
                  !.blendEquation = this.blendEquation,
                  !.cull = this.cull,
                  !.depthTest = this.depthTest,
                  !.depthWrite = this.depthWrite,
                  !.redWrite = this.redWrite,
                  !.greenWrite = this.greenWrite,
                  !.blueWrite = this.blueWrite,
                  !.alphaWrite = this.alphaWrite,
                  !.meshInstances = aa]

\* material.clone(), while fewer than MaxMaterials exist: new pc.Material() takes
\* one id, _cloneInternal a second one; the objects the constructor made for the
\* clone are replaced and collected.
Clone(m) ==
    /\ Len(materials) < MaxMaterials
    /\ LET pa == NewObject(LiveParams(materials))
           va == NewObject(LiveVariants(materials))
           aa == NewObject(LiveArrays(materials))
           clone == cloneInternal(materials[m], Material(id, pa, va, aa), id + 1, pa, va, aa)
           after == Append(materials, clone)
       IN /\ materials' = after
          /\ id' = id + 2
          /\ paramObjs' = Collect(paramObjs, LiveParams(after), <<>>)
          /\ variantObjs' = Collect(variantObjs, LiveVariants(after), {})
          /\ arrayObjs' = Collect(arrayObjs, LiveArrays(after), <<>>)
          /\ calls' = <<>>
          /\ last' = Op("clone")
          /\ UNCHANGED <<meshShader, global_i, everResolved>>

\* The loop of clearVariants: the _shader slots after it.
clearShaders(meshInstances, slots) ==
    [k \in MeshIds |-> IF k \in Range(meshInstances) THEN Null ELSE slots[k]]

\* material.clearVariants(): this.variants = {}; then the loop, whose undeclared
\* variable i is a global and is left at meshInstances.length.
ClearVariants(m) ==
    LET this == [materials[m] EXCEPT
                    !.variants = NewObject(VariantsHeldBy(materials, DOMAIN materials \ {m}))]
        after == [materials EXCEPT ![m] = this]
        meshInstances == arrayObjs[this.meshInstances]
    IN /\ materials' = after
       /\ variantObjs' = Collect([variantObjs EXCEPT ![this.variants] = {}],
                                 LiveVariants(after), {})
       /\ meshShader' = clearShaders(meshInstances, meshShader)
       /\ global_i' = Len(meshInstances)
       /\ calls' = <<>>
       /\ last' = [Op("clearVariants") EXCEPT
                      !.before = <<[k \in 1..Len(meshInstances) |-> meshShader[meshInstances[k]]],
                                   variantObjs[materials[m].variants]>>]
       /\ UNCHANGED <<id, paramObjs, arrayObjs, everResolved>>

\* material.variants[key] = a compiled variant (the renderer's write).
CacheVariant(m, key) ==
    /\ variantObjs' = [variantObjs EXCEPT ![materials[m].variants] = @ \cup {key}]
    /\ calls' = <<>>
    /\ last' = Op("other")
    /\ UNCHANGED <<id, materials, paramObjs, arrayObjs, meshShader, global_i, everResolved>>

\* meshInstance._shader = shader (the renderer's write).
CacheShader(k, shader) ==
    /\ meshShader' = [meshShader EXCEPT ![k] = shader]
    /\ calls' = <<>>
    /\ last' = Op("other")
    /\ UNCHANGED <<id, materials, paramObjs, variantObjs, arrayObjs, global_i, everResolved>>

\* ------------------------------------------- accessors, extension points
\* material.setShader(shader)
SetShader(m, shader) ==
    /\ materials' = [materials EXCEPT ![m].shader = shader]
    /\ calls' = <<>>
    /\ last' = Op("other")
    /\ UNCHANGED <<id, paramObjs, variantObjs, arrayObjs, meshShader, global_i, everResolved>>

\* material.update() and material.init(data): throw Error("Not Implemented in base class")
Throwing(m) ==
    /\ calls' = <<>>
    /\ last' = [Op("other") EXCEPT !.threw = TRUE]
    /\ UNCHANGED <<id, materials, paramObjs, variantObjs, arrayObjs, meshShader, global_i,
                   everResolved>>

\* material.updateShader(device, scene, objDefs): an empty body
UpdateShader(m) ==
    /\ calls' = <<>>
    /\ last' = Op("other")
    /\ UNCHANGED <<id, materials, paramObjs, variantObjs, arrayObjs, meshShader, global_i,
                   everResolved>>

\* A caller's direct writes of all render-state fields and the name at once.
WriteFields(m, state) ==
    /\ materials' = [materials EXCEPT ![m] =
                        [f \in DOMAIN @ |-> IF f \in DOMAIN state THEN state[f] ELSE @[f]]]
    /\ calls' = <<>>
    /\ last' = Op("other")
    /\ UNCHANGED <<id, paramObjs, variantObjs, arrayObjs, meshShader, global_i, everResolved>>

\* A render state that differs from the constructor's in every field.
OtherState ==
    [name |-> "glass", alphaTest |-> 1, blend |-> TRUE, blendSrc |-> BLENDMODE_DST_COLOR,
     blendDst |-> BLENDMODE_SRC_ALPHA, blendEquation |-> BLENDEQUATION_SUBTRACT,
     cull |-> CULLFACE_FRONT, depthTest |-> FALSE, depthWrite |-> FALSE,
     redWrite |-> FALSE, greenWrite |-> FALSE, blueWrite |-> FALSE, alphaWrite |-> FALSE]

\* The direct writes of the four blend fields, over their whole domains.
BlendWrites ==
    ({"blend"} \X BOOLEAN) \cup ({"blendSrc", "blendDst"} \X BlendModes)
        \cup ({"blendEquation"} \X BlendEquations)

\* Direct writes of fields the blend type does not read.
OtherWrites == {<<"cull", CULLFACE_NONE>>, <<"depthWrite", FALSE>>, <<"alphaTest", 1>>}

\* The state after one new pc.Material().
InitOne ==
    /\ id = 1
    /\ materials = <<Material(0, 1, 1, 1)>>
    /\ paramObjs = [a \in Addrs |-> <<>>]
    /\ variantObjs = [a \in Addrs |-> {}]
    /\ arrayObjs = [a \in Addrs |-> <<>>]
    /\ meshShader = [k \in MeshIds |-> Null]
    /\ global_i = Undefined
    /\ everResolved = {}
    /\ calls = <<>>
    /\ last = Op("new")

\* One material's blend property: the setter, the getter and direct field writes.
NextBlend ==
    \/ \E type \in BlendTypes : SetBlendType(1, type)
    \/ GetBlendType(1)
    \/ \E w \in BlendWrites \cup OtherWrites : WriteField(1, w[1], w[2])

SpecBlend == InitOne /\ [][NextBlend]_vars

SpecParams == InitOne /\ [][NextParams]_vars

\* The same, with the array form of setParameter.
NextParamSeq ==
    \/ NextParams
    \/ \E items \in ArrayItems : SetParameter(1, ArrayArg(items), Undefined)

SpecParamSeq == InitOne /\ [][NextParamSeq]_vars

\* Mesh instances are interchangeable: they are attached in the order of their ids.
AttachNext(m, k) ==
    /\ \A j \in MeshIds : j < k =>
          \E o \in 1..Len(materials) : j \in Range(arrayObjs[materials[o].meshInstances])
    /\ Attach(m, k)

\* Creation of materials.
Create ==
    \/ Construct
    \/ \E m \in 1..Len(materials) : Clone(m)

\* The operations that change nothing of a material.
Inert(m) ==
    \/ Throwing(m)
    \/ UpdateShader(m)

\* What a material holds beyond what the blendType setter and the mesh-instance
\* list give it: a changed blend equation, parameter records, cached variants.
Holds(mat) ==
    (IF mat.blendEquation # BLENDEQUATION_ADD THEN 1 ELSE 0)
    + Len(paramObjs[mat.parameters])
    + Cardinality(variantObjs[mat.variants])

RECURSIVE HeldFrom(_)
HeldFrom(k) == IF k > Len(materials) THEN 0 ELSE Holds(materials[k]) + HeldFrom(k + 1)

\* The operations that add to what the materials hold run while the total is
\* below MaxHeld.
Room == HeldFrom(1) < MaxHeld

\* The operations of Material that leave the keys alone, on material m.
KeepsKeys(m) ==
    \/ (Room /\ WriteField(m, "blendEquation", BLENDEQUATION_SUBTRACT))
    \/ (Room /\ SetParameter(m, StringArg("x"), 1))
    \/ DeleteParameter(m, "x")
    \/ ClearParameters(m)
    \/ SetParameters(m)
    \/ ClearVariants(m)
    \/ Inert(m)

\* Mesh-instance keys: the blendType setter and mesh-instance lists on every
\* material, with the operations that leave the keys alone on the first one.
NextKeys ==
    \/ Create
    \/ \E m \in 1..Len(materials), type \in {BLEND_ADDITIVE, BLEND_SUBTRACTIVE} :
          SetBlendType(m, type)
    \/ \E m \in 1..Len(materials), k \in MeshIds : AttachNext(m, k)
    \/ (materials # <<>> /\ KeepsKeys(1))

SpecKeys == Init /\ [][NextKeys]_vars

\* Variant caches: clearVariants on every material, with the renderer's cached
\* variants and shaders.
NextVariants ==
    \/ Create
    \/ \E m \in 1..Len(materials) : ClearVariants(m)
    \/ \E m \in 1..Len(materials), k \in MeshIds : AttachNext(m, k)
    \/ \E m \in 1..Len(materials), key \in VariantKeys : CacheVariant(m, key)
    \/ \E k \in MeshIds, shader \in Shaders : CacheShader(k, shader)

SpecVariants == Init /\ [][NextVariants]_vars

\* Creation: constructor and clone, with every kind of state a source can hold.
NextClone ==
    \/ Create
    \/ \E m \in 1..Len(materials) : WriteFields(m, OtherState)
    \/ \E m \in 1..Len(materials), shader \in Shaders : SetShader(m, shader)
    \/ \E m \in 1..Len(materials) : SetParameter(m, StringArg("x"), 1)
    \/ \E m \in 1..Len(materials), key \in VariantKeys : CacheVariant(m, key)
    \/ \E m \in 1..Len(materials) : AttachNext(m, 1)
    \/ \E m \in 1..Len(materials) : DeleteParameter(m, "x")
    \/ \E m \in 1..Len(materials) : ClearParameters(m)
    \/ \E m \in 1..Len(materials) : Inert(m)

SpecClone == Init /\ [][NextClone]_vars

\* ------------------------------------------------------------- claims
\* The preset table of the specification (section 4.1): the four blend fields
\* <<blend, blendSrc, blendDst, blendEquation>> of each preset.
PresetRow(p) ==
    CASE p = BLEND_NONE -> <<FALSE, BLENDMODE_ONE, BLENDMODE_ZERO, BLENDEQUATION_ADD>>
      [] p = BLEND_NORMAL ->
           <<TRUE, BLENDMODE_SRC_ALPHA, BLENDMODE_ONE_MINUS_SRC_ALPHA, BLENDEQUATION_ADD>>
      [] p = BLEND_PREMULTIPLIED ->
           <<TRUE, BLENDMODE_ONE, BLENDMODE_ONE_MINUS_SRC_ALPHA, BLENDEQUATION_ADD>>
      [] p = BLEND_ADDITIVE -> <<TRUE, BLENDMODE_ONE, BLENDMODE_ONE, BLENDEQUATION_ADD>>
      [] p = BLEND_ADDITIVEALPHA ->
           <<TRUE, BLENDMODE_SRC_ALPHA, BLENDMODE_ONE, BLENDEQUATION_ADD>>
      [] p = BLEND_MULTIPLICATIVE ->
           <<TRUE, BLENDMODE_DST_COLOR, BLENDMODE_ZERO, BLENDEQUATION_ADD>>

InTable(q) == \E p \in Presets : PresetRow(p) = q

\* The materials that exist, and the fields clone copies by value.
Mats == 1..Len(materials)
ScalarFields ==
    {"name", "alphaTest", "blend", "blendSrc", "blendDst", "blendEquation", "cull",
     "depthTest", "depthWrite", "redWrite", "greenWrite", "blueWrite", "alphaWrite"}

\* The parameter table, variant cache and mesh-instance list of material m, before
\* and after a step.
TableOf(m) == paramObjs[materials[m].parameters]
TableOfNext(m) == paramObjs'[materials'[m].parameters]
VariantsOf(m) == variantObjs[materials[m].variants]
VariantsOfNext(m) == variantObjs'[materials'[m].variants]
ListOf(m) == arrayObjs[materials[m].meshInstances]
ListOfNext(m) == arrayObjs'[materials'[m].meshInstances]

\* C1: for every preset p and every prior value of the four blend fields, the
\* assignment blendType = p leaves the four fields equal to the table row of p, and
\* a read of blendType then returns p.
C1_RoundTrip ==
    [][\A m \in Mats, p \in Presets :
          SetBlendType(m, p) =>
              /\ Quad(materials'[m]) = PresetRow(p)
              /\ blendTypeGet(materials'[m]) = p]_vars

\* A preset was assigned over fields that matched no row of the table and had a
\* blend equation other than the preset's.
C1_Witness ==
    /\ last.op = "setBlendType"
    /\ last.type = BLEND_PREMULTIPLIED
    /\ ~InTable(last.before[1])
    /\ last.before[1][4] = BLENDEQUATION_SUBTRACT
    /\ Quad(materials[1]) = PresetRow(BLEND_PREMULTIPLIED)

\* C2: a read of blendType returns the preset whose table row equals the four
\* fields when there is one and NORMAL otherwise, whatever the other fields are
\* and however the fields were written, and the read changes no state.
C2_GetterPure ==
    [][\A m \in Mats :
          GetBlendType(m) =>
              /\ IF InTable(Quad(materials[m]))
                 THEN last'.ret \in Presets /\ PresetRow(last'.ret) = Quad(materials[m])
                 ELSE last'.ret = BLEND_NORMAL
              /\ UNCHANGED <<id, materials, paramObjs, variantObjs, arrayObjs, meshShader,
                             global_i, everResolved>>]_vars

\* A read returned NORMAL for directly written fields that match no row, on a
\* material whose other fields were written too.
C2_Witness ==
    /\ last.op = "getBlendType"
    /\ last.ret = BLEND_NORMAL
    /\ ~InTable(Quad(materials[1]))
    /\ materials[1].blend
    /\ materials[1].blendEquation = BLENDEQUATION_SUBTRACT
    /\ materials[1].cull = CULLFACE_NONE

\* C3: an assignment to blendType of a material with n mesh instances calls
\* updateKey once on each of them, in list order, each call seeing the blend fields
\* the assignment wrote; no other operation calls updateKey.
C3_KeysRefreshedBySetterOnly ==
    [][IF last'.op = "setBlendType"
       THEN \A m \in Mats :
               SetBlendType(m, last'.type) =>
                   /\ Len(calls') = Len(ListOf(m))
                   /\ \A k \in 1..Len(ListOf(m)) :
                         /\ calls'[k].fn = "updateKey"
                         /\ calls'[k].mesh = ListOf(m)[k]
                         /\ calls'[k].name = IF last'.type \in Presets THEN last'.type
                                             ELSE blendTypeGet(materials[m])
       ELSE \A k \in 1..Len(calls') : calls'[k].fn # "updateKey"]_vars

\* A preset was assigned to a material with two mesh instances whose fields held
\* another preset's row, and both were called.
C3_Witness ==
    /\ last.op = "setBlendType"
    /\ last.type = BLEND_ADDITIVE
    /\ last.before[1] = PresetRow(BLEND_NONE)
    /\ Len(calls) = 2
    /\ calls[1].mesh = 1
    /\ calls[2].mesh = 2
    /\ calls[2].name = BLEND_ADDITIVE

C5_UpsertKeepsHandle ==
    [][\A m \in Mats, n \in ParamNames, v \in Values :
          SetParameter(m, StringArg(n), v) =>
              LET before == getParameter(TableOf(m), n)
                  after == getParameter(TableOfNext(m), n)
              IN /\ Len(after) = 1
                 /\ after[1].data = v
                 /\ IF before # <<>>
                    THEN /\ after[1].scopeId = before[1].scopeId
                         /\ Len(TableOfNext(m)) = Len(TableOf(m))
                    ELSE /\ after[1].scopeId = NullId
                         /\ Len(TableOfNext(m)) = Len(TableOf(m)) + 1
                 /\ \A o \in Keys \ {n} :
                       getParameter(TableOfNext(m), o) = getParameter(TableOf(m), o)]_vars

\* A record whose handle setParameters had resolved was given a new value.
C5_Witness ==
    /\ last.op = "setParameter"
    /\ last.type = "string"
    /\ last.data = 2
    /\ getParameter(TableOf(1), last.name) # <<>>
    /\ getParameter(TableOf(1), last.name)[1].scopeId = resolve(last.name)
    /\ getParameter(TableOf(1), last.name)[1].data = 2
    /\ Len(TableOf(1)) = 2

\* The setValue calls of a sequence of calls, as <<name of the handle, value>>.
SetValues(sequence) ==
    LET pushes == SelectSeq(sequence, LAMBDA c : c.fn = "setValue")
    IN [k \in 1..Len(pushes) |-> <<pushes[k].name, pushes[k].value>>]

\* setParameters pushes the value of every record of the table, once, in table
\* order, through the handle of the record's own name.
PushesEveryRecord(m) ==
    SetValues(calls') = [k \in 1..Len(TableOf(m)) |-> <<TableOf(m)[k].name, TableOf(m)[k].data>>]

\* C6 as stated: over any sequence of setParameter, deleteParameter,
\* clearParameters and setParameters calls, resolve(name) is called at most once for
\* each name, and each setParameters call pushes every record once through the
\* handle of its name.
C6_ResolveOncePerName ==
    [][/\ \A n \in Keys : Resolves(calls', n) > 0 =>
             Resolves(calls', n) = 1 /\ n \notin everResolved
       /\ \A m \in Mats : SetParameters(m) => PushesEveryRecord(m)]_vars

\* C6, amended: resolve is called by setParameters only, once for each record whose
\* handle is null and never for a record whose handle is set, and the record keeps
\* the handle; each setParameters call pushes every record once through the handle
\* of its name.
C6_ResolveOncePerRecord ==
    [][/\ last'.op # "setParameters" => calls' = <<>>
       /\ \A m \in Mats :
             SetParameters(m) =>
                 /\ PushesEveryRecord(m)
                 /\ Len(TableOfNext(m)) = Len(TableOf(m))
                 /\ \A k \in 1..Len(TableOf(m)) :
                       /\ Resolves(calls', TableOf(m)[k].name)
                             = IF TableOf(m)[k].scopeId = NullId THEN 1 ELSE 0
                       /\ TableOfNext(m)[k] =
                             [TableOf(m)[k] EXCEPT !.scopeId = resolve(TableOf(m)[k].name)]]_vars

\* setParameters ran on a table with a record resolved before and a record not yet
\* resolved: one resolve, two pushes.
C6_Witness ==
    /\ last.op = "setParameters"
    /\ Len(calls) = 3
    /\ Len(TableOf(1)) = 2
    /\ everResolved = Range([k \in 1..2 |-> TableOf(1)[k].name])
    /\ calls[1].fn = "setValue"
    /\ calls[2].fn = "resolve"

\* The table after the scalar calls setParameter(items[k].name, items[k].value), in order.
RECURSIVE ScalarCalls(_, _, _)
ScalarCalls(table, items, k) ==
    IF k > Len(items) THEN table
    ELSE ScalarCalls(setParameter(table, StringArg(items[k].name), items[k].value),
                     items, k + 1)

\* C7: for every sequence of {name, value} objects, the empty one included,
\* setParameter(sequence) leaves the table as the scalar calls for its elements,
\* made in order, leave it.
C7_SequenceAsScalarCalls ==
    [][\A m \in Mats, items \in ArrayItems :
          SetParameter(m, ArrayArg(items), Undefined) =>
              TableOfNext(m) = ScalarCalls(TableOf(m), items, 1)]_vars

\* C8: clone() appends a material with another id, the source's name and render
\* state, an empty parameter table, variant cache and mesh-instance list of its own
\* and a null shader; every other material, the source included, keeps its fields,
\* tables, caches and lists, and no two materials share one of these objects.
C8_CloneCopiesScalarsOnly ==
    [][\A m \in Mats :
          Clone(m) =>
              LET c == Len(materials) + 1
              IN /\ Len(materials') = c
                 /\ materials'[c].id # materials[m].id
                 /\ \A f \in ScalarFields : materials'[c][f] = materials[m][f]
                 /\ materials'[c].shader = Null
                 /\ TableOfNext(c) = <<>>
                 /\ VariantsOfNext(c) = {}
                 /\ ListOfNext(c) = <<>>
                 /\ \A j \in Mats :
                       /\ materials'[j] = materials[j]
                       /\ TableOfNext(j) = TableOf(j)
                       /\ VariantsOfNext(j) = VariantsOf(j)
                       /\ ListOfNext(j) = ListOf(j)
                 /\ \A i, j \in 1..c :
                       i # j => /\ materials'[i].parameters # materials'[j].parameters
                                /\ materials'[i].variants # materials'[j].variants
                                /\ materials'[i].meshInstances # materials'[j].meshInstances
                 /\ meshShader' = meshShader]_vars

\* A material with changed render state, a shader, a parameter, a cached variant
\* and a mesh instance was cloned.
C8_Witness ==
    /\ last.op = "clone"
    /\ Len(materials) = 2
    /\ \A f \in DOMAIN OtherState : materials[1][f] = OtherState[f] /\ materials[2][f] = OtherState[f]
    /\ materials[1].shader # Null
    /\ TableOf(1) # <<>>
    /\ VariantsOf(1) # {}
    /\ ListOf(1) # <<>>
    /\ TableOf(2) = <<>>

\* C9: after every step the ids of the materials are strictly increasing in
\* creation order and below the counter; constructor and clone are the only
\* operations that change the counter, and no operation changes the id of an
\* existing material.
C9_IdsUniqueIncreasing ==
    [][/\ \A i, j \in 1..Len(materials') : i < j => materials'[i].id < materials'[j].id
       /\ \A j \in 1..Len(materials') : materials'[j].id < id'
       /\ Len(materials') >= Len(materials)
       /\ \A j \in Mats : materials'[j].id = materials[j].id
       /\ last'.op \notin {"new", "clone"} => id' = id /\ Len(materials') = Len(materials)]_vars

\* A material was constructed and cloned, and other operations ran on both.
C9_Witness ==
    /\ Len(materials) = 2
    /\ materials[1].id = 0
    /\ materials[2].id = 2
    /\ id = 3
    /\ last.op = "setParameter"
    /\ TableOf(1) # <<>>
    /\ TableOf(2) # <<>>

\* C10: clearVariants() on a material with n mesh instances empties its variant
\* cache and sets the _shader slot of each of the n mesh instances to null, makes no
\* call on them, and leaves the material's other fields, its parameter table and
\* its mesh-instance list unchanged.
C10_ClearVariants ==
    [][\A m \in Mats :
          ClearVariants(m) =>
              /\ VariantsOfNext(m) = {}
              /\ \A k \in 1..Len(ListOf(m)) : meshShader'[ListOf(m)[k]] = Null
              /\ \A k \in MeshIds \ Range(ListOf(m)) : meshShader'[k] = meshShader[k]
              /\ calls' = <<>>
              /\ \A f \in DOMAIN materials[m] \ {"variants"} :
                    materials'[m][f] = materials[m][f]
              /\ TableOfNext(m) = TableOf(m)
              /\ ListOfNext(m) = ListOf(m)
              /\ \A j \in Mats \ {m} :
                    materials'[j] = materials[j] /\ VariantsOfNext(j) = VariantsOf(j)]_vars

\* clearVariants ran on a material with a cached variant and two mesh instances
\* with cached shaders, while another material keeps its cached variant.
C10_Witness ==
    /\ last.op = "clearVariants"
    /\ last.before = <<<<"shaderA", "shaderA">>, {"k1"}>>
    /\ global_i = 2
    /\ \A k \in MeshIds : meshShader[k] = Null
    /\ \E j \in Mats : VariantsOf(j) # {}

====
